---- MODULE Spec2Model ----
(***************************************************************************)
(* Link-sign prediction by low-rank spectral reconstruction                *)
(* (SignedNetZoo/link_prediction/algebraic_similarity.py).                 *)
(*                                                                         *)
(* One caller invokes the three estimators, one call at a time, on a graph *)
(* it owns.  A call is modelled statement by statement: the locals of the  *)
(* running frame (A, EA, u, s, v, w, preds and the loop position) are the  *)
(* state, and what the caller gets back is `ret` (a returned list) or      *)
(* `err` (a raised exception).                                             *)
(*                                                                         *)
(* Floating point values are represented by integers.  The arrays that     *)
(* scipy's svds / eigsh hand back are not computed here: a solver call     *)
(* may answer with any arrays of the right shape over FactorVals,          *)
(* SingularVals and EigenVals, so that nothing proved depends on which     *)
(* factorization the solver picks.  The solvers are taken to converge;     *)
(* their only failure is the rank precondition 1 <= k < n, which they      *)
(* check before iterating.                                                 *)
(*                                                                         *)
(* Error names follow the specification: InvalidRankError is the           *)
(* ValueError / TypeError the solvers raise for a bad k,                   *)
(* IndexOutOfRangeError is numpy's IndexError, NameError is the            *)
(* UnboundLocalError python raises for a local read before assignment.     *)
(***************************************************************************)
EXTENDS Integers, Sequences, FiniteSets

\* ------------------------------------------------------------------ bounds
\* Longest required_links list.
MaxLinks == 2
\* Largest singular value, and largest magnitude of an eigenvalue.
MaxVal == 1

Nodes(n) == 0 .. (n - 1)
\* Entries of the singular vectors and eigenvectors the solvers return.
FactorVals == {-1, 1}
\* Singular values are not negative; eigenvalues may be.
SingularVals == 0 .. MaxVal
EigenVals == (-MaxVal) .. MaxVal

\* ------------------------------------------------------------ pure helpers
RECURSIVE SumUpTo(_, _)
\* sum([f[k] for k in range(m)])
SumUpTo(f, m) == IF m <= 0 THEN 0 ELSE SumUpTo(f, m - 1) + f[m - 1]

Unbound == << >>
NoReturn == [returned |-> FALSE, value |-> << >>]

\* numpy indexing of an axis of length n: an index in [-n, -1] counts from
\* the end, anything else outside [0, n) raises IndexError.
InBounds(i, n) == i >= -n /\ i < n
Resolve(i, n) == IF i < 0 THEN i + n ELSE i

\* The sign rule with zero on the negative side.
SignLabelStrict(entry_val) == IF entry_val > 0 THEN 1 ELSE -1

\* if entry_val >= 0: preds.append(1) else: preds.append(-1)
SignLabel(entry_val) == IF entry_val >= 0 THEN 1 ELSE -1

\* sum([s[k] * u[i, k] * v[k, j] for k in range(dim)])
SvdEntry(uu, ss, vv, i, j, d, n) ==
    SumUpTo([k \in 0 .. (d - 1) |->
                ss[k] * uu[Resolve(i, n)][k] * vv[k][Resolve(j, n)]], d)

\* The eigen reconstruction without its last factor: w[k] * v[i, k].
EigEntryRowOnly(ww, vv, i, j, d, n) ==
    SumUpTo([k \in 0 .. (d - 1) |-> ww[k] * vv[Resolve(i, n)][k]], d)

\* sum([w[k] * v[i, k] * v[j, k] for k in range(dim)])
EigEntry(ww, vv, i, j, d, n) ==
    SumUpTo([k \in 0 .. (d - 1) |->
                ww[k] * vv[Resolve(i, n)][k] * vv[Resolve(j, n)][k]], d)

\* ------------------------------------------------------------------ graphs
\* A signed directed graph on nodes 0..n-1 without self loops, as the sign
\* of the edge i -> j (0: no edge).
NumNodes(g) == Cardinality(DOMAIN g)

\* The signed directed cycle 0 -> 1 -> ... -> m-1 -> 0 whose edge signs
\* alternate, the edge out of node 0 having sign `first`.
CycleGraph(m, first) ==
    [i \in Nodes(m) |-> [j \in Nodes(m) |->
        IF j = (i + 1) % m
        THEN (IF i % 2 = 0 THEN first ELSE -first)
        ELSE 0]]

\* The graphs the caller may own: the two-node cycles, for which 1 is the
\* one rank the solvers accept.
Graphs == { CycleGraph(2, first) : first \in {-1, 1} }

\* get_adjacency_matrix(G)[0]: entry (i, j) is the sign of the edge i -> j.
get_adjacency_matrix(g) == g

\* get_symmetric_adjacency_matrix(G): a symmetric matrix derived from the
\* adjacency matrix.
get_symmetric_adjacency_matrix(g) ==
    [i \in DOMAIN g |-> [j \in DOMAIN g |-> g[i][j] + g[j][i]]]

MatMul(X, Y) ==
    [i \in DOMAIN X |-> [j \in DOMAIN X |->
        SumUpTo([k \in DOMAIN X |-> X[i][k] * Y[k][j]], Cardinality(DOMAIN X))]]

\* expm(A), as the degree-two Taylor polynomial I + A + A.A/2 of the
\* exponential, with its entries multiplied by two to stay integral.
expm(X) ==
    LET XX == MatMul(X, X)
    IN  [i \in DOMAIN X |-> [j \in DOMAIN X |->
            (IF i = j THEN 2 ELSE 0) + 2 * X[i][j] + XX[i][j]]]

\* np.exp(w) for one eigenvalue, in the same fixed point form as expm.
np_exp(x) == 2 + 2 * x + x * x

\* ------------------------------------------------------------------- state
VARIABLES
    G,               \* the caller's graph
    pc,              \* where the running call is
    fn,              \* the estimator called
    symmetric,       \* its symmetric argument (exponential estimator only)
    dim,             \* its dim argument
    required_links,  \* its required_links argument
    A, EA,           \* locals: the matrix and its exponential
    u, s, v, w,      \* locals: the factor arrays
    svd_of,          \* the matrix and rank the last svds call was given
    preds,           \* local: the list being built
    pos,             \* how many pairs the for loop has consumed
    ret,             \* what the call returned
    err              \* what the call raised

vars == << G, pc, fn, symmetric, dim, required_links, A, EA, u, s, v, w,
           svd_of, preds, pos, ret, err >>

args == << fn, symmetric, dim, required_links >>

n == NumNodes(G)

\* Indices a caller may put in a pair: the nodes, one past the last node,
\* and one before the first.
IndexInputs(m) == (-1) .. m
Pairs(m) == IndexInputs(m) \X IndexInputs(m)
LinkLists(m) == UNION { [1 .. len -> Pairs(m)] : len \in 0 .. MaxLinks }

ValidRank(k, m) == k >= 1 /\ k < m
ValidPair(p, m) == p[1] \in Nodes(m) /\ p[2] \in Nodes(m)
ValidLinks(links, m) == \A x \in 1 .. Len(links) : ValidPair(links[x], m)

Init ==
    /\ G \in Graphs
    /\ pc = "idle"
    /\ fn = "none"
    /\ symmetric = FALSE
    /\ dim = 0
    /\ required_links = << >>
    /\ A = Unbound /\ EA = Unbound
    /\ u = Unbound /\ s = Unbound /\ v = Unbound /\ w = Unbound
    /\ svd_of = Unbound
    /\ preds = << >>
    /\ pos = 0
    /\ ret = NoReturn
    /\ err = "none"

\* The caller makes a call: a fresh frame with the arguments bound.
Call ==
    /\ pc = "idle"
    /\ \E f \in {"adjacency", "symmetric", "exponential"},
          sym \in BOOLEAN, d \in 0 .. n, links \in LinkLists(n) :
        /\ (f # "exponential") => (sym = FALSE)
        /\ fn' = f
        /\ symmetric' = sym
        /\ dim' = d
        /\ required_links' = links
    /\ A' = Unbound /\ EA' = Unbound
    /\ u' = Unbound /\ s' = Unbound /\ v' = Unbound /\ w' = Unbound
    /\ svd_of' = Unbound
    /\ preds' = << >>
    /\ pos' = 0
    /\ ret' = NoReturn
    /\ err' = "none"
    /\ pc' = "matrix"
    /\ UNCHANGED G

Raise(e) ==
    /\ pc' = "raised"
    /\ err' = e
    /\ ret' = NoReturn

\* The factorization with its rank error caught and an empty list returned.
SvdsCaught(M, next) ==
    IF ~ValidRank(dim, n)
    THEN /\ pc' = "done"
         /\ ret' = [returned |-> TRUE, value |-> << >>]
         /\ UNCHANGED << u, s, v, svd_of, err >>
    ELSE /\ u' \in [Nodes(n) -> [0 .. (dim - 1) -> FactorVals]]
         /\ s' \in [0 .. (dim - 1) -> SingularVals]
         /\ v' \in [0 .. (dim - 1) -> [Nodes(n) -> FactorVals]]
         /\ svd_of' = [of |-> M, k |-> dim]
         /\ pc' = next
         /\ UNCHANGED << ret, err >>

\* u, s, v = svds(M, k=dim): raises unless 1 <= dim < n, else any factors.
Svds(M, next) ==
    IF ~ValidRank(dim, n)
    THEN /\ Raise("InvalidRankError")
         /\ UNCHANGED << u, s, v, svd_of >>
    ELSE /\ u' \in [Nodes(n) -> [0 .. (dim - 1) -> FactorVals]]
         /\ s' \in [0 .. (dim - 1) -> SingularVals]
         /\ v' \in [0 .. (dim - 1) -> [Nodes(n) -> FactorVals]]
         /\ svd_of' = [of |-> M, k |-> dim]
         /\ pc' = next
         /\ UNCHANGED << ret, err >>

\* w, v = eigsh(M, k=dim): raises unless 1 <= dim < n, else any eigenpairs.
Eigsh(M, next) ==
    IF ~ValidRank(dim, n)
    THEN /\ Raise("InvalidRankError")
         /\ UNCHANGED << w, v >>
    ELSE /\ w' \in [0 .. (dim - 1) -> EigenVals]
         /\ v' \in [Nodes(n) -> [0 .. (dim - 1) -> FactorVals]]
         /\ pc' = next
         /\ UNCHANGED << ret, err >>

\* The caller has the outcome of the call; the frame is gone.
Finish ==
    /\ pc \in {"done", "raised"}
    /\ pc' = "idle"
    /\ fn' = "none"
    /\ symmetric' = FALSE
    /\ dim' = 0
    /\ required_links' = << >>
    /\ A' = Unbound /\ EA' = Unbound
    /\ u' = Unbound /\ s' = Unbound /\ v' = Unbound /\ w' = Unbound
    /\ svd_of' = Unbound
    /\ preds' = << >>
    /\ pos' = 0
    /\ ret' = NoReturn
    /\ err' = "none"
    /\ UNCHANGED G

\* for pair in required_links: the pair of this pass of the loop.
Pair == required_links[pos + 1]

\* The loop body putting the new label in front of the list.
AppendLabelFront(entry_val) ==
    /\ preds' = << SignLabel(entry_val) >> \o preds
    /\ pos' = pos + 1
    /\ UNCHANGED << pc, ret, err >>

\* The body of the loop for a pair with the reconstructed entry entry_val:
\* append its label.
AppendLabel(entry_val) ==
    /\ preds' = Append(preds, SignLabel(entry_val))
    /\ pos' = pos + 1
    /\ UNCHANGED << pc, ret, err >>

\* The index error handing the caller the labels computed so far.
RaiseIndexErrorLeaks ==
    /\ pc' = "raised"
    /\ err' = "IndexOutOfRangeError"
    /\ ret' = [returned |-> TRUE, value |-> preds]
    /\ UNCHANGED << preds, pos >>

\* Reading u[i, k], v[k, j] fails for an index outside the array.
RaiseIndexError ==
    /\ Raise("IndexOutOfRangeError")
    /\ UNCHANGED << preds, pos >>

\* The loop is exhausted: return preds.
ReturnPreds ==
    /\ pos = Len(required_links)
    /\ pc' = "done"
    /\ ret' = [returned |-> TRUE, value |-> preds]
    /\ UNCHANGED << preds, pos, err >>

\* ------------------------------------------------- adjacency_dim_reduce
\* A, _ = get_adjacency_matrix(G); A = A.astype(float)
AdjMatrix ==
    /\ pc = "matrix" /\ fn = "adjacency"
    /\ A' = get_adjacency_matrix(G)
    /\ pc' = "factor"
    /\ UNCHANGED << G, args, EA, u, s, v, w, svd_of, preds, pos, ret, err >>

\* u, s, v = svds(A, k=dim); preds = []
AdjSvds ==
    /\ pc = "factor" /\ fn = "adjacency"
    /\ Svds(A, "loop")
    /\ preds' = << >>
    /\ UNCHANGED << G, args, A, EA, w, pos >>

\* for pair in required_links: i, j = pair
\*     entry_val = sum([s[k] * u[i, k] * v[k, j] for k in range(dim)])
\*     preds.append(1 if entry_val >= 0 else -1)
AdjLoop ==
    /\ pc = "loop" /\ fn = "adjacency"
    /\ pos < Len(required_links)
    /\ IF InBounds(Pair[1], n) /\ InBounds(Pair[2], n)
       THEN AppendLabel(SvdEntry(u, s, v, Pair[1], Pair[2], dim, n))
       ELSE RaiseIndexError
    /\ UNCHANGED << G, args, A, EA, u, s, v, w, svd_of >>

\* return preds
AdjReturn ==
    /\ pc = "loop" /\ fn = "adjacency"
    /\ ReturnPreds
    /\ UNCHANGED << G, args, A, EA, u, s, v, w, svd_of >>

adjacency_dim_reduce == AdjMatrix \/ AdjSvds \/ AdjLoop \/ AdjReturn

\* --------------------------------------- symmetric_adjacency_dim_reduce
\* A = get_symmetric_adjacency_matrix(G); A = A.astype(float)
SymMatrix ==
    /\ pc = "matrix" /\ fn = "symmetric"
    /\ A' = get_symmetric_adjacency_matrix(G)
    /\ pc' = "factor"
    /\ UNCHANGED << G, args, EA, u, s, v, w, svd_of, preds, pos, ret, err >>

\* w, v = eigsh(A, k=dim); preds = []
SymEigsh ==
    /\ pc = "factor" /\ fn = "symmetric"
    /\ Eigsh(A, "loop")
    /\ preds' = << >>
    /\ UNCHANGED << G, args, A, EA, u, s, svd_of, pos >>

\* for pair in required_links: i, j = pair
\*     entry_val = sum([w[k] * v[i, k] * v[j, k] for k in range(dim)])
\*     preds.append(1 if entry_val >= 0 else -1)
SymLoop ==
    /\ pc = "loop" /\ fn = "symmetric"
    /\ pos < Len(required_links)
    /\ IF InBounds(Pair[1], n) /\ InBounds(Pair[2], n)
       THEN AppendLabel(EigEntry(w, v, Pair[1], Pair[2], dim, n))
       ELSE RaiseIndexError
    /\ UNCHANGED << G, args, A, EA, u, s, v, w, svd_of >>

\* return preds
SymReturn ==
    /\ pc = "loop" /\ fn = "symmetric"
    /\ ReturnPreds
    /\ UNCHANGED << G, args, A, EA, u, s, v, w, svd_of >>

symmetric_adjacency_dim_reduce == SymMatrix \/ SymEigsh \/ SymLoop \/ SymReturn

\* ------------------------------------- exponential_adjacency_dim_reduce
\* if symmetric: A = get_symmetric_adjacency_matrix(G)
\* else: A, _ = get_adjacency_matrix(G)
\* A = A.astype(float).tocsc()
ExpMatrix ==
    /\ pc = "matrix" /\ fn = "exponential"
    /\ A' = IF symmetric THEN get_symmetric_adjacency_matrix(G)
                         ELSE get_adjacency_matrix(G)
    /\ pc' = "branch"
    /\ UNCHANGED << G, args, EA, u, s, v, w, svd_of, preds, pos, ret, err >>

\* if not symmetric: EA = expm(A)
ExpExpm ==
    /\ pc = "branch" /\ fn = "exponential" /\ ~symmetric
    /\ EA' = expm(A)
    /\ pc' = "svds99"
    /\ UNCHANGED << G, args, A, u, s, v, w, svd_of, preds, pos, ret, err >>

\* u, s, v = svds(EA, k=dim)   (inside the branch)
ExpSvdsBranch ==
    /\ pc = "svds99" /\ fn = "exponential"
    /\ Svds(EA, "svds106")
    /\ UNCHANGED << G, args, A, EA, w, preds, pos >>

\* else: w, v = eigsh(A, k=dim)
ExpEigsh ==
    /\ pc = "branch" /\ fn = "exponential" /\ symmetric
    /\ Eigsh(A, "copy")
    /\ UNCHANGED << G, args, A, EA, u, s, svd_of, preds, pos >>

\* w = np.exp(w); s = w.copy(); u = v.copy(); v = v.T.copy()
ExpCopy ==
    /\ pc = "copy" /\ fn = "exponential"
    /\ w' = [k \in DOMAIN w |-> np_exp(w[k])]
    /\ s' = w'
    /\ u' = v
    /\ v' = [k \in 0 .. (dim - 1) |-> [i \in Nodes(n) |-> v[i][k]]]
    /\ pc' = "svds106"
    /\ UNCHANGED << G, args, A, EA, svd_of, preds, pos, ret, err >>

\* The second factorization given A in place of EA.
ExpSvdsOfA ==
    /\ pc = "svds106" /\ fn = "exponential"
    /\ IF EA = Unbound
       THEN /\ Raise("NameError")
            /\ UNCHANGED << u, s, v, svd_of >>
       ELSE Svds(A, "loop")
    /\ preds' = << >>
    /\ UNCHANGED << G, args, A, EA, w, pos >>

\* u, s, v = svds(EA, k=dim)   (after the branches); preds = []
\* EA is a local that only the first branch assigns.
ExpSvds ==
    /\ pc = "svds106" /\ fn = "exponential"
    /\ IF EA = Unbound
       THEN /\ Raise("NameError")
            /\ UNCHANGED << u, s, v, svd_of >>
       ELSE Svds(EA, "loop")
    /\ preds' = << >>
    /\ UNCHANGED << G, args, A, EA, w, pos >>

\* for pair in required_links: i, j = pair
\*     entry_val = sum([s[k] * u[i, k] * v[k, j] for k in range(dim)])
\*     preds.append(1 if entry_val >= 0 else -1)
ExpLoop ==
    /\ pc = "loop" /\ fn = "exponential"
    /\ pos < Len(required_links)
    /\ IF InBounds(Pair[1], n) /\ InBounds(Pair[2], n)
       THEN AppendLabel(SvdEntry(u, s, v, Pair[1], Pair[2], dim, n))
       ELSE RaiseIndexError
    /\ UNCHANGED << G, args, A, EA, u, s, v, w, svd_of >>

\* return preds
ExpReturn ==
    /\ pc = "loop" /\ fn = "exponential"
    /\ ReturnPreds
    /\ UNCHANGED << G, args, A, EA, u, s, v, w, svd_of >>

exponential_adjacency_dim_reduce ==
    \/ ExpMatrix \/ ExpExpm \/ ExpSvdsBranch \/ ExpEigsh \/ ExpCopy
    \/ ExpSvds \/ ExpLoop \/ ExpReturn

Next ==
    \/ Call
    \/ adjacency_dim_reduce
    \/ symmetric_adjacency_dim_reduce
    \/ exponential_adjacency_dim_reduce
    \/ Finish

Spec == Init /\ [][Next]_vars

\* ------------------------------------------------------------- properties
Ended == pc \in {"done", "raised"}
Returned == pc = "done"
LinkIndex == 1 .. Len(required_links)
IsSign(x) == x = 1 \/ x = -1

\* The entry the running call's loop reconstructs for the pair (i, j).
Reconstruct(i, j) ==
    IF fn = "symmetric"
    THEN EigEntry(w, v, i, j, dim, n)
    ELSE SvdEntry(u, s, v, i, j, dim, n)

RECURSIVE Predict(_)
\* preds = []; for pair in links: preds.append(label of pair); return preds
\* with the factors of the running call, for links whose indices are all in
\* bounds.
Predict(links) ==
    IF links = << >>
    THEN << >>
    ELSE LET last == links[Len(links)]
         IN  Append(Predict(SubSeq(links, 1, Len(links) - 1)),
                    SignLabel(Reconstruct(last[1], last[2])))

Permutations(m) ==
    { p \in [1 .. m -> 1 .. m] : \A x, y \in 1 .. m : p[x] = p[y] => x = y }
Permuted(q, p) == [x \in 1 .. Len(q) |-> q[p[x]]]

\* C1: the exponential estimator called with symmetric=True, a valid dim and
\* valid pairs returns the labels reconstructed from the exponentiated
\* eigenvalues and the eigenvectors, and calls no truncated SVD.
C1_SymmetricCompletes ==
    (Ended /\ fn = "exponential" /\ symmetric
        /\ ValidRank(dim, n) /\ ValidLinks(required_links, n))
    => /\ Returned
       /\ svd_of = Unbound
       /\ ret.value = Predict(required_links)

\* C2: every estimator called with a valid dim and valid pairs returns a
\* list as long as the pairs whose elements are all +1 or -1.
C2_ListOfSigns ==
    (Ended /\ ValidRank(dim, n) /\ ValidLinks(required_links, n))
    => /\ Returned
       /\ Len(ret.value) = Len(required_links)
       /\ \A x \in 1 .. Len(ret.value) : IsSign(ret.value[x])

\* C3: the list a call returns is the list of its pairs' labels in the order
\* of the pairs, and permuting the pairs permutes that list the same way.
C3_OrderPreserved ==
    Returned
    => /\ ret.value = Predict(required_links)
       /\ \A p \in Permutations(Len(required_links)) :
             Predict(Permuted(required_links, p)) = Permuted(ret.value, p)

C3_Witness ==
    /\ Returned
    /\ Len(required_links) = 2
    /\ ValidLinks(required_links, n)
    /\ ret.value[1] # ret.value[2]

\* C4: a call with dim = 0 or dim >= n never gets past the factorization:
\* it ends raising InvalidRankError and returns nothing.
C4_BadRankRaises ==
    (fn # "none" /\ (dim = 0 \/ dim >= n))
    => /\ pc \in {"matrix", "factor", "branch", "svds99", "raised"}
       /\ pc = "raised" => err = "InvalidRankError"
       /\ ret = NoReturn

C4_Witness ==
    /\ pc = "raised" /\ err = "InvalidRankError"
    /\ fn = "exponential" /\ ~symmetric /\ dim >= n

\* C5: a call (with a valid dim, and not cut short by the unbound EA) whose
\* pairs hold an index >= n or < 0 ends raising IndexOutOfRangeError.
C5_BadIndexRaises ==
    (Ended /\ ValidRank(dim, n) /\ ~ValidLinks(required_links, n)
        /\ err # "NameError")
    => (pc = "raised" /\ err = "IndexOutOfRangeError")

\* C6: a call that raised hands the caller the error and no list, whatever
\* labels the loop had computed before the failing pair.
C6_NoPartialResult ==
    (pc = "raised") => (err # "none" /\ ret = NoReturn)

C6_Witness ==
    /\ pc = "raised" /\ err = "IndexOutOfRangeError"
    /\ Len(preds) >= 1

\* C7: every label the loop has appended is +1 exactly when the entry
\* reconstructed for its pair is >= 0 and -1 exactly when it is < 0.
C7_SignRule ==
    (pc \in {"loop", "done", "raised"})
    => \A x \in 1 .. Len(preds) :
          LET e == Reconstruct(required_links[x][1], required_links[x][2])
          IN  /\ (preds[x] = 1) <=> (e >= 0)
              /\ (preds[x] = -1) <=> (e < 0)

C7_Witness ==
    /\ Returned
    /\ \E x \in LinkIndex :
          /\ Reconstruct(required_links[x][1], required_links[x][2]) = 0
          /\ ret.value[x] = 1

C10_ExponentialIsSvdOfExpm ==
    (Returned /\ fn = "exponential" /\ ~symmetric)
    => /\ svd_of = [of |-> expm(get_adjacency_matrix(G)), k |-> dim]
       /\ DOMAIN s = 0 .. (dim - 1)
       /\ ret.value =
            [x \in LinkIndex |->
                SignLabel(SvdEntry(u, s, v, required_links[x][1],
                                   required_links[x][2], dim, n))]

C10_Witness ==
    /\ Returned /\ fn = "exponential" /\ ~symmetric
    /\ Len(required_links) = 2
    /\ ValidLinks(required_links, n)
    /\ \E x \in LinkIndex : ret.value[x] = -1
====
